---- MODULE Spec2Model ----
(***************************************************************************)
(* Smart Comfort Climate: the climate entity of                            *)
(* custom_components/smart_comfort_climate/climate.py and the three sensor *)
(* entities of sensor.py as a state machine.                               *)
(*                                                                         *)
(* Numbers.  Python floats are modelled in fixed point: every temperature, *)
(* dew point, humidity and target is an integer number of thousandths      *)
(* (Fx(72) is 72.0, 65010 is 65.01).  The ladder and the classifier only    *)
(* compare, add and subtract such values, which fixed point does exactly.  *)
(* The Magnus formula (a logarithm) and the heat-index polynomial are      *)
(* tabulated on the grid of readings the model uses, each entry being the  *)
(* value the Python expression gives, rounded to the thousandth.           *)
(*                                                                         *)
(* Scheduling.  Every handler is a coroutine.  It runs without interruption*)
(* up to an "await hass.services.async_call(...)"; the host decides whether*)
(* that call returns at once or suspends the coroutine and lets other      *)
(* handlers run first.  The only suspension after which a handler still    *)
(* acts is the one between the two service calls of                        *)
(* _async_execute_comfort_control; such a suspended evaluation is an entry *)
(* of `pending', and Resume continues it.                                  *)
(***************************************************************************)
EXTENDS Integers, Sequences, FiniteSets

VARIABLES
    temp_state,              \* hass.states.get(temperature_sensor_id)
    humidity_state,          \* hass.states.get(humidity_sensor_id)
    climate_state,           \* hass.states.get(climate_entity_id), its state string
    data,                    \* config_entry.data (targets given at set-up)
    options,                 \* config_entry.options
    current_temperature,     \* self._current_temperature
    current_humidity,        \* self._current_humidity
    feels_like_temperature,  \* self._feels_like_temperature
    dew_point,               \* self._dew_point
    comfort_status,          \* self._comfort_status
    hvac_mode,               \* self._hvac_mode
    is_on,                   \* self._is_on
    underlying_hvac_mode,    \* self._underlying_hvac_mode
    added,                   \* async_added_to_hass has run
    pending,                 \* evaluations suspended at their first service call
    emitted,                 \* service calls issued by the latest step, in order
    last,                    \* what the latest step was and the Decision it computed
    sensors                  \* the three entities of sensor.py, by sensor type

vars == <<temp_state, humidity_state, climate_state, data, options,
          current_temperature, current_humidity, feels_like_temperature,
          dew_point, comfort_status, hvac_mode, is_on, underlying_hvac_mode,
          added, pending, emitted, last, sensors>>

world == <<temp_state, humidity_state, climate_state>>
stored == <<current_temperature, current_humidity, feels_like_temperature,
            dew_point, comfort_status, underlying_hvac_mode>>

----------------------------------------------------------------------------
(* Values *)

\* Python's None for a numeric attribute: a value no reading, target or
\* computed metric takes.
None == -999999

\* Python's None for a string attribute.
NoneStr == "None"

\* A float with integer value n, in thousandths.
Fx(n) == n * 1000

Min(a, b) == IF a < b THEN a ELSE b

\* const.py
DEFAULT_TARGET_FEELS_LIKE == Fx(72)
DEFAULT_TARGET_HUMIDITY == Fx(45)
DEW_POINT_OPPRESSIVE == Fx(65)
MODE_PRIORITY_DRY == "dry"
MODE_PRIORITY_COOL == "cool"
MODE_PRIORITY_FAN == "fan_only"
MODE_PRIORITY_OFF == "off"

\* homeassistant.const / HVACMode members the entity uses
STATE_UNKNOWN == "unknown"
STATE_UNAVAILABLE == "unavailable"
HVAC_OFF == "off"
HVAC_AUTO == "auto"

\* self._attr_hvac_modes
hvac_modes == {HVAC_OFF, HVAC_AUTO}

----------------------------------------------------------------------------
(* The states of the source entities.  A sensor's state is a string; the   *)
(* model keeps what the handler's tests can tell apart: no state object    *)
(* ("missing"), the two marker strings, a string float() rejects ("text"), *)
(* and a string float() parses to val ("num").                             *)

Missing == [kind |-> "missing", val |-> None]
Marker(s) == [kind |-> s, val |-> None]
Text == [kind |-> "text", val |-> None]
Numeric(v) == [kind |-> "num", val |-> v]

TempReadings == {Fx(68), Fx(80)}
HumidityReadings == {Fx(40), Fx(70), Fx(110)}

TempStates == {Missing, Marker(STATE_UNAVAILABLE), Text}
                  \cup {Numeric(v) : v \in TempReadings}
HumidityStates == {Missing, Marker(STATE_UNKNOWN), Text}
                  \cup {Numeric(v) : v \in HumidityReadings}

\* The device's state string, or "missing" when it has no state object.
NoClimate == "missing"
ClimateStates == {NoClimate, "off", "cool", "fan_only"}

\* Targets the options form offers (65..85 and 30..70) that the model uses.
FormTargets == {[target_feels_like |-> Fx(72), target_humidity |-> Fx(45)]}

\* The targets given at set-up.
SetupTargets == [target_feels_like |-> Fx(85), target_humidity |-> Fx(70)]

\* Temperatures a caller may pass to async_set_temperature; None is a call
\* without ATTR_TEMPERATURE.
SetTemperatureArgs == {None, Fx(1), Fx(72)}

NoOptions == [target_feels_like |-> None, target_humidity |-> None]

----------------------------------------------------------------------------
(* Comfort metrics *)

\* The Magnus formula of _calculate_dew_point (climate.py and sensor.py hold
\* the same expression) for a humidity in (0, 100].
Magnus(temp_f, humidity) ==
    CASE temp_f = Fx(68) /\ humidity = 39900 -> 42713
      [] temp_f = Fx(68) /\ humidity = Fx(40) -> 42779
      [] temp_f = Fx(68) /\ humidity = Fx(70) -> 57852
      [] temp_f = Fx(68) /\ humidity = Fx(100) -> 68000
      [] temp_f = 79900 /\ humidity = 39900 -> 53362
      [] temp_f = 79900 /\ humidity = Fx(40) -> 53430
      [] temp_f = 79900 /\ humidity = Fx(70) -> 69241
      [] temp_f = 79900 /\ humidity = Fx(100) -> 79900
      [] temp_f = Fx(80) /\ humidity = 39900 -> 53451
      [] temp_f = Fx(80) /\ humidity = Fx(40) -> 53520
      [] temp_f = Fx(80) /\ humidity = Fx(70) -> 69337
      [] temp_f = Fx(80) /\ humidity = Fx(100) -> 80000

\* the range guard with the upper end 100 excluded
calculate_dew_point_below_100(temp_f, humidity) ==
    IF humidity <= 0 \/ humidity >= Fx(100)
    THEN 0
    ELSE Magnus(temp_f, humidity)

calculate_dew_point(temp_f, humidity) ==
    IF humidity <= 0 \/ humidity > Fx(100)
    THEN 0
    ELSE Magnus(temp_f, humidity)

\* The heat-index polynomial (climate.py and sensor.py hold the same
\* expression).
HeatIndexPolynomial(temp_f, humidity) ==
    CASE temp_f = Fx(80) /\ humidity = Fx(40) -> 79929
      [] temp_f = Fx(80) /\ humidity = Fx(70) -> 82953
      [] temp_f = Fx(80) /\ humidity = Fx(100) -> 87188
      [] temp_f = Fx(80) /\ humidity = 100010 -> 87189
      [] temp_f = Fx(80) /\ humidity = Fx(110) -> 88868

\* _calculate_heat_index of the climate entity: the polynomial, with no
\* domain guard.
calculate_heat_index(temp_f, humidity) == HeatIndexPolynomial(temp_f, humidity)

\* the comfort adjustment with its two factors exchanged
comfort_adjustment_swapped(temp_f, dp) ==
    IF dp > Fx(65) THEN temp_f + ((dp - Fx(55)) * 2) \div 10
    ELSE IF dp > Fx(55) THEN temp_f + ((dp - Fx(55)) * 4) \div 10
    ELSE temp_f

\* The "comfort adjustment" chain of _calculate_feels_like_temperature on
\* the dew point dp it computed: (dew_point - 55) * 0.4 and * 0.2, cut to
\* the thousandth.
comfort_adjustment(temp_f, dp) ==
    IF dp > Fx(65) THEN temp_f + ((dp - Fx(55)) * 4) \div 10
    ELSE IF dp > Fx(55) THEN temp_f + ((dp - Fx(55)) * 2) \div 10
    ELSE temp_f

\* feels-like with temp_f > 80 for the heat-index branch
calculate_feels_like_temperature_strict(temp_f, humidity) ==
    IF temp_f > Fx(80) /\ humidity >= Fx(40)
    THEN calculate_heat_index(temp_f, humidity)
    ELSE comfort_adjustment(temp_f, calculate_dew_point(temp_f, humidity))

calculate_feels_like_temperature(temp_f, humidity) ==
    IF temp_f >= Fx(80) /\ humidity >= Fx(40)
    THEN calculate_heat_index(temp_f, humidity)
    ELSE comfort_adjustment(temp_f, calculate_dew_point(temp_f, humidity))

\* the classifier with inclusive thresholds (>=)
get_comfort_status_inclusive(dp) ==
    IF dp >= Fx(65) THEN "Oppressive"
    ELSE IF dp >= Fx(60) THEN "Muggy"
    ELSE IF dp >= Fx(55) THEN "Slightly Humid"
    ELSE IF dp >= Fx(50) THEN "Comfortable"
    ELSE IF dp >= Fx(45) THEN "Very Comfortable"
    ELSE IF dp >= Fx(35) THEN "Dry"
    ELSE "Very Dry"

\* the classifier without its Muggy band
get_comfort_status_no_muggy(dp) ==
    IF dp > Fx(65) THEN "Oppressive"
    ELSE IF dp > Fx(55) THEN "Slightly Humid"
    ELSE IF dp > Fx(50) THEN "Comfortable"
    ELSE IF dp > Fx(45) THEN "Very Comfortable"
    ELSE IF dp > Fx(35) THEN "Dry"
    ELSE "Very Dry"

get_comfort_status(dp) ==
    IF dp > Fx(65) THEN "Oppressive"
    ELSE IF dp > Fx(60) THEN "Muggy"
    ELSE IF dp > Fx(55) THEN "Slightly Humid"
    ELSE IF dp > Fx(50) THEN "Comfortable"
    ELSE IF dp > Fx(45) THEN "Very Comfortable"
    ELSE IF dp > Fx(35) THEN "Dry"
    ELSE "Very Dry"

----------------------------------------------------------------------------
(* Targets: options first, then data, then the default *)

\* target_feels_like reading the set-up data before the options.
target_feels_like_data_first(opts, dat) ==
    IF dat.target_feels_like # None THEN dat.target_feels_like
    ELSE IF opts.target_feels_like # None THEN opts.target_feels_like
    ELSE DEFAULT_TARGET_FEELS_LIKE

target_feels_like(opts, dat) ==
    IF opts.target_feels_like # None THEN opts.target_feels_like
    ELSE IF dat.target_feels_like # None THEN dat.target_feels_like
    ELSE DEFAULT_TARGET_FEELS_LIKE

target_humidity(opts, dat) ==
    IF opts.target_humidity # None THEN opts.target_humidity
    ELSE IF dat.target_humidity # None THEN dat.target_humidity
    ELSE DEFAULT_TARGET_HUMIDITY

----------------------------------------------------------------------------
(* The priority ladder.  tfl is self.target_feels_like, which the method   *)
(* reads for its setpoints.                                                *)

Decision(mode, temp, reason) == [mode |-> mode, temp |-> temp, reason |-> reason]

\* "{x:.0f}": the nearest integer, a tie going to the even one.
Format0f(x) ==
    LET q == x \div 1000
        r == x % 1000
    IN  IF r > 500 THEN q + 1
        ELSE IF r < 500 THEN q
        ELSE IF q % 2 = 0 THEN q ELSE q + 1

\* A reason: its text and the two numbers the f-string prints in it (None
\* where the text prints none).
Reason(text) == <<text, None, None>>
ReasonHumidity(text, humidity, th) == <<text, Format0f(humidity), Format0f(th)>>

\* Priority1 with the warm test including its boundary (>= 2).
Priority1WarmInclusive(feels_like_diff, current_temp, humidity, th, tfl) ==
    IF feels_like_diff >= Fx(2)
    THEN Decision(MODE_PRIORITY_COOL,
                  Min(current_temp - Fx(2), tfl - Fx(1)),
                  ReasonHumidity("AC mode (humidity > target + warm)",
                                 humidity, th))
    ELSE Decision(MODE_PRIORITY_DRY, tfl,
                  ReasonHumidity("DRY mode (humidity > target)",
                                 humidity, th))

\* PRIORITY 1: humidity above target.
Priority1(feels_like_diff, current_temp, humidity, th, tfl) ==
    IF feels_like_diff > Fx(2)
    THEN Decision(MODE_PRIORITY_COOL,
                  Min(current_temp - Fx(2), tfl - Fx(1)),
                  ReasonHumidity("AC mode (humidity > target + warm)",
                                 humidity, th))
    ELSE Decision(MODE_PRIORITY_DRY, tfl,
                  ReasonHumidity("DRY mode (humidity > target)",
                                 humidity, th))

\* Priority2 cooling to current_temp - 3 whatever the target.
Priority2NoTargetCap(feels_like_diff, current_temp, tfl) ==
    IF feels_like_diff > 0
    THEN Decision(MODE_PRIORITY_COOL, current_temp - Fx(3),
                  Reason("AC mode (oppressive dew point + hot)"))
    ELSE Decision(MODE_PRIORITY_DRY, tfl,
                  Reason("DRY mode (oppressive dew point)"))

\* PRIORITY 2: humidity acceptable, dew point oppressive.
Priority2(feels_like_diff, current_temp, tfl) ==
    IF feels_like_diff > 0
    THEN Decision(MODE_PRIORITY_COOL,
                  Min(current_temp - Fx(3), tfl - Fx(2)),
                  Reason("AC mode (oppressive dew point + hot)"))
    ELSE Decision(MODE_PRIORITY_DRY, tfl,
                  Reason("DRY mode (oppressive dew point)"))

\* Priority3 turning off at the boundary too (<= -4).
Priority3OffInclusive(feels_like_diff, current_temp) ==
    IF feels_like_diff > Fx(2)
    THEN Decision(MODE_PRIORITY_COOL, current_temp - Fx(1),
                  Reason("AC mode (good humidity, cooling needed)"))
    ELSE IF feels_like_diff > Fx(1)
    THEN Decision(MODE_PRIORITY_FAN, None,
                  Reason("FAN mode (good humidity, slight cooling)"))
    ELSE IF feels_like_diff <= 0 - Fx(4)
    THEN Decision(MODE_PRIORITY_OFF, None,
                  Reason("OFF (good humidity, too cold)"))
    ELSE Decision(MODE_PRIORITY_FAN, None,
                  Reason("FAN mode (perfect conditions)"))

\* Priority3 cooling where the code runs the fan (feels_like_diff > 1).
Priority3CoolAboveOne(feels_like_diff, current_temp) ==
    IF feels_like_diff > Fx(1)
    THEN Decision(MODE_PRIORITY_COOL, current_temp - Fx(1),
                  Reason("AC mode (good humidity, cooling needed)"))
    ELSE IF feels_like_diff < 0 - Fx(4)
    THEN Decision(MODE_PRIORITY_OFF, None,
                  Reason("OFF (good humidity, too cold)"))
    ELSE Decision(MODE_PRIORITY_FAN, None,
                  Reason("FAN mode (perfect conditions)"))

\* PRIORITY 3: humidity good, temperature comfort.
Priority3(feels_like_diff, current_temp) ==
    IF feels_like_diff > Fx(2)
    THEN Decision(MODE_PRIORITY_COOL, current_temp - Fx(1),
                  Reason("AC mode (good humidity, cooling needed)"))
    ELSE IF feels_like_diff > Fx(1)
    THEN Decision(MODE_PRIORITY_FAN, None,
                  Reason("FAN mode (good humidity, slight cooling)"))
    ELSE IF feels_like_diff < 0 - Fx(4)
    THEN Decision(MODE_PRIORITY_OFF, None,
                  Reason("OFF (good humidity, too cold)"))
    ELSE Decision(MODE_PRIORITY_FAN, None,
                  Reason("FAN mode (perfect conditions)"))

determine_climate_action(dp, feels_like_diff, current_temp, humidity, th, tfl) ==
    IF humidity > th
    THEN Priority1(feels_like_diff, current_temp, humidity, th, tfl)
    ELSE IF dp > DEW_POINT_OPPRESSIVE
    THEN Priority2(feels_like_diff, current_temp, tfl)
    ELSE Priority3(feels_like_diff, current_temp)

NoDecision == Decision(NoneStr, None, Reason(NoneStr))

----------------------------------------------------------------------------
(* Service calls to the device *)

SetHvacModeCall(mode) ==
    [service |-> "set_hvac_mode", hvac_mode |-> mode, temperature |-> None]

SetTemperatureCall(temp) ==
    [service |-> "set_temperature", hvac_mode |-> NoneStr, temperature |-> temp]

\* Python truth of a float-or-None: None and 0.0 are false.
Truthy(x) == x # None /\ x # 0

\* ModeCalls without the comparison: the mode is always sent.
ModeCallsAlways(d, underlying) == <<SetHvacModeCall(d.mode)>>

\* "if target_mode != self._underlying_hvac_mode": the mode call, if any.
ModeCalls(d, underlying) ==
    IF d.mode # underlying THEN <<SetHvacModeCall(d.mode)>> ELSE <<>>

\* SetpointCalls without its test: a setpoint call in every evaluation.
SetpointCallsAlways(d) == <<SetTemperatureCall(d.temp)>>

\* "if target_temp and target_mode in ["cool", "dry"]": the setpoint call,
\* if any.
SetpointCalls(d) ==
    IF Truthy(d.temp) /\ d.mode \in {"cool", "dry"}
    THEN <<SetTemperatureCall(d.temp)>>
    ELSE <<>>

\* AutoAndOn without the test: comfort control runs in every mode.
AutoAndOnAlways(mode, on) == TRUE

\* AutoAndOn testing the selected mode only where the entity is on.
AutoAndOnIgnoresOff(mode, on) == on => mode = HVAC_AUTO

\* "if self._hvac_mode == HVACMode.AUTO and self._is_on"
AutoAndOn(mode, on) == mode = HVAC_AUTO /\ on

\* What a step leaves in `last'.
Step(op, evaluated, d) ==
    [op |-> op, evaluated |-> evaluated, decision |-> d]

\* the guard testing the stored temperature only
HaveTemperatureOnly(ct, ch, fl, dp) == ct # None

\* The guard of _async_execute_comfort_control.
HaveMetrics(ct, ch, fl, dp) ==
    ct # None /\ ch # None /\ fl # None /\ dp # None

\* execute_comfort_control with hysteresis: a device that is already cooling
\* is kept cooling until the feels-like temperature is back at its target.
execute_with_hysteresis(op, ct, ch, fl, dp, underlying, opts, suspend) ==
    IF ~HaveMetrics(ct, ch, fl, dp)
    THEN /\ emitted' = <<>>
         /\ last' = Step(op, FALSE, NoDecision)
         /\ pending' = pending
    ELSE LET tfl == target_feels_like(opts, data)
             th == target_humidity(opts, data)
             feels_like_diff == fl - tfl
             d == IF underlying = MODE_PRIORITY_COOL /\ feels_like_diff > 0
                  THEN Decision(MODE_PRIORITY_COOL, tfl, Reason("keep cooling"))
                  ELSE determine_climate_action(dp, feels_like_diff, ct, ch,
                                                th, tfl)
             mode_calls == ModeCalls(d, underlying)
         IN  /\ last' = Step(op, TRUE, d)
             /\ IF suspend /\ mode_calls # <<>>
                THEN /\ emitted' = mode_calls
                     /\ pending' = Append(pending, d)
                ELSE /\ emitted' = mode_calls \o SetpointCalls(d)
                     /\ pending' = pending

\* _async_execute_comfort_control on the stored values given, with the
\* options opts in force.  suspend: the host suspends the coroutine at the
\* set_hvac_mode call, if it makes one; the rest of the method then runs in
\* a later Resume step.
execute_comfort_control(op, ct, ch, fl, dp, underlying, opts, suspend) ==
    IF ~HaveMetrics(ct, ch, fl, dp)
    THEN /\ emitted' = <<>>
         /\ last' = Step(op, FALSE, NoDecision)
         /\ pending' = pending
    ELSE LET tfl == target_feels_like(opts, data)
             th == target_humidity(opts, data)
             feels_like_diff == fl - tfl
             d == determine_climate_action(dp, feels_like_diff, ct, ch, th, tfl)
             mode_calls == ModeCalls(d, underlying)
         IN  /\ last' = Step(op, TRUE, d)
             /\ IF suspend /\ mode_calls # <<>>
                THEN /\ emitted' = mode_calls
                     /\ pending' = Append(pending, d)
                ELSE /\ emitted' = mode_calls \o SetpointCalls(d)
                     /\ pending' = pending

\* A step that returns before it computes or emits anything.
Skip(op) ==
    /\ emitted' = <<>>
    /\ last' = Step(op, FALSE, NoDecision)
    /\ pending' = pending

\* "state.state in [STATE_UNKNOWN, STATE_UNAVAILABLE]"
IsUnknownOrUnavailable(s) == s.kind \in {STATE_UNKNOWN, STATE_UNAVAILABLE}

\* _async_update_state reading the source states ts, hs, cs.
update_state(op, ts, hs, cs, opts, suspend) ==
    IF ts.kind = "missing" \/ hs.kind = "missing" \/ cs = NoClimate
    THEN Skip(op) /\ UNCHANGED stored
    ELSE IF IsUnknownOrUnavailable(ts)
    THEN Skip(op) /\ UNCHANGED stored
    ELSE IF IsUnknownOrUnavailable(hs)
    THEN Skip(op) /\ UNCHANGED stored
    ELSE IF ts.kind = "text"
    THEN \* float(temp_state.state) raises: nothing was assigned
         Skip(op) /\ UNCHANGED stored
    ELSE IF hs.kind = "text"
    THEN \* float(humidity_state.state) raises after the temperature was stored
         /\ current_temperature' = ts.val
         /\ UNCHANGED <<current_humidity, feels_like_temperature, dew_point,
                        comfort_status, underlying_hvac_mode>>
         /\ Skip(op)
    ELSE LET dp == calculate_dew_point(ts.val, hs.val)
             fl == calculate_feels_like_temperature(ts.val, hs.val)
         IN  /\ current_temperature' = ts.val
             /\ current_humidity' = hs.val
             /\ dew_point' = dp
             /\ feels_like_temperature' = fl
             /\ comfort_status' = get_comfort_status(dp)
             /\ underlying_hvac_mode' = cs
             /\ IF AutoAndOn(hvac_mode, is_on)
                THEN execute_comfort_control(op, ts.val, hs.val, fl, dp, cs,
                                             opts, suspend)
                ELSE Skip(op)

----------------------------------------------------------------------------
(* The sensor platform (sensor.py): three entities over the same two       *)
(* source sensors, each with its own copy of the readings and its own      *)
(* native value.                                                           *)

\* round(x, 1): the nearest tenth.  No tabulated value lies half way
\* between two tenths; such a value would go to the even tenth.
Round1(x) ==
    LET q == x \div 100
        r == x % 100
    IN  IF r > 50 \/ (r = 50 /\ q % 2 = 1) THEN (q + 1) * 100 ELSE q * 100

\* ComfortSensorBase.__init__; no_value is the native value not yet set.
NewSensor(no_value) ==
    [added |-> FALSE, current_temperature |-> None,
     current_humidity |-> None, native_value |-> no_value]

NewSensors ==
    [dew_point |-> NewSensor(None),
     feels_like |-> NewSensor(None),
     comfort_status |-> NewSensor(NoneStr)]

\* ComfortSensorBase._calculate_dew_point
sensor_calculate_dew_point(temp_f, humidity) ==
    IF humidity <= 0 \/ humidity > Fx(100)
    THEN 0
    ELSE Magnus(temp_f, humidity)

\* ComfortSensorBase._calculate_heat_index: the polynomial behind a guard.
sensor_calculate_heat_index(temp_f, humidity) ==
    IF temp_f < Fx(80) \/ humidity < Fx(40)
    THEN temp_f
    ELSE HeatIndexPolynomial(temp_f, humidity)

\* DewPointSensor._async_calculate_value: the new native value.
DewPointSensor_calculate_value(self) ==
    IF self.current_temperature = None \/ self.current_humidity = None
    THEN None
    ELSE Round1(sensor_calculate_dew_point(self.current_temperature,
                                           self.current_humidity))

\* FeelsLikeSensor._async_calculate_value
FeelsLikeSensor_calculate_value(self) ==
    IF self.current_temperature = None \/ self.current_humidity = None
    THEN None
    ELSE LET temp_f == self.current_temperature
             humidity == self.current_humidity
             dp == sensor_calculate_dew_point(temp_f, humidity)
             feels_like ==
                 IF temp_f >= Fx(80) /\ humidity >= Fx(40)
                 THEN sensor_calculate_heat_index(temp_f, humidity)
                 ELSE IF dp > Fx(65)
                 THEN temp_f + ((dp - Fx(55)) * 4) \div 10
                 ELSE IF dp > Fx(55)
                 THEN temp_f + ((dp - Fx(55)) * 2) \div 10
                 ELSE temp_f
         IN  Round1(feels_like)

\* The threshold chain of ComfortStatusSensor._async_calculate_value.
sensor_comfort_status(dp) ==
    IF dp > Fx(65) THEN "Oppressive"
    ELSE IF dp > Fx(60) THEN "Muggy"
    ELSE IF dp > Fx(55) THEN "Slightly Humid"
    ELSE IF dp > Fx(50) THEN "Comfortable"
    ELSE IF dp > Fx(45) THEN "Very Comfortable"
    ELSE IF dp > Fx(35) THEN "Dry"
    ELSE "Very Dry"

\* ComfortStatusSensor._async_calculate_value
ComfortStatusSensor_calculate_value(self) ==
    IF self.current_temperature = None \/ self.current_humidity = None
    THEN NoneStr
    ELSE sensor_comfort_status(
             sensor_calculate_dew_point(self.current_temperature,
                                        self.current_humidity))

\* _async_calculate_value of the sensor of type k.
sensor_calculate_value(k, self) ==
    CASE k = "dew_point" -> DewPointSensor_calculate_value(self)
      [] k = "feels_like" -> FeelsLikeSensor_calculate_value(self)
      [] k = "comfort_status" -> ComfortStatusSensor_calculate_value(self)

\* sensor_update_state calculating the value on every path that cleared a
\* reading, which resets the native value.
sensor_update_state_resets(k, self, ts, hs) ==
    IF ts.kind = "missing" \/ hs.kind = "missing"
    THEN self
    ELSE IF ts.kind = "num" /\ hs.kind = "num"
    THEN LET read == [self EXCEPT !.current_temperature = ts.val,
                                  !.current_humidity = hs.val]
         IN  [read EXCEPT !.native_value = sensor_calculate_value(k, read)]
    ELSE LET cleared == [self EXCEPT !.current_temperature = None,
                                     !.current_humidity = None]
         IN  [cleared EXCEPT
                  !.native_value = sensor_calculate_value(k, cleared)]

\* ComfortSensorBase._async_update_state of the sensor of type k, whose
\* fields are self, reading the source states ts and hs.
sensor_update_state(k, self, ts, hs) ==
    IF ts.kind = "missing" \/ hs.kind = "missing"
    THEN self
    ELSE IF IsUnknownOrUnavailable(ts)
    THEN [self EXCEPT !.current_temperature = None]
    ELSE IF IsUnknownOrUnavailable(hs)
    THEN [self EXCEPT !.current_humidity = None]
    ELSE IF ts.kind = "text" \/ hs.kind = "text"
    THEN \* float() raises: the handler clears both readings
         [self EXCEPT !.current_temperature = None,
                      !.current_humidity = None]
    ELSE LET read == [self EXCEPT !.current_temperature = ts.val,
                                  !.current_humidity = hs.val]
         IN  [read EXCEPT !.native_value = sensor_calculate_value(k, read)]

\* A step of the sensor entities leaves the climate entity alone.
SensorStep(op) ==
    /\ emitted' = <<>>
    /\ last' = Step(op, FALSE, NoDecision)
    /\ UNCHANGED <<world, data, options, stored, hvac_mode, is_on, added,
                   pending>>

\* ComfortSensorBase.async_added_to_hass of the three sensors: subscribe,
\* then the initial update.
sensors_added_to_hass ==
    /\ \A k \in DOMAIN sensors : ~sensors[k].added
    /\ sensors' = [k \in DOMAIN sensors |->
                      sensor_update_state(k, [sensors[k] EXCEPT !.added = TRUE],
                                          temp_state, humidity_state)]
    /\ SensorStep("sensors_added_to_hass")

\* ComfortSensorBase._async_state_changed of the three sensors, for a state
\* change of a source sensor.
sensors_state_changed ==
    /\ \A k \in DOMAIN sensors : sensors[k].added
    /\ sensors' = [k \in DOMAIN sensors |->
                      sensor_update_state(k, sensors[k],
                                          temp_state, humidity_state)]
    /\ SensorStep("sensors_state_changed")

----------------------------------------------------------------------------
(* Handlers *)

\* SmartComfortClimate.__init__, with the host's states and the config entry
\* as set-up left them.
Init ==
    /\ temp_state \in TempStates
    /\ humidity_state \in HumidityStates
    /\ climate_state \in ClimateStates
    /\ data = SetupTargets
    /\ options = NoOptions
    /\ current_temperature = None
    /\ current_humidity = None
    /\ feels_like_temperature = None
    /\ dew_point = None
    /\ comfort_status = NoneStr
    /\ hvac_mode = HVAC_AUTO
    /\ is_on = TRUE
    /\ underlying_hvac_mode = NoneStr
    /\ added = FALSE
    /\ pending = <<>>
    /\ emitted = <<>>
    /\ last = Step("init", FALSE, NoDecision)
    /\ sensors = NewSensors

\* async_added_to_hass: subscribe, then the initial update.
async_added_to_hass(suspend) ==
    /\ ~added
    /\ added' = TRUE
    /\ update_state("async_added_to_hass", temp_state, humidity_state,
                    climate_state, options, suspend)
    /\ UNCHANGED <<world, data, options, hvac_mode, is_on,
                   sensors>>

\* A tracked entity's state changes to s and _async_state_changed runs.
TempStateChanged(s, suspend) ==
    /\ added
    /\ temp_state' = s
    /\ update_state("state_changed", s, humidity_state, climate_state,
                    options, suspend)
    /\ UNCHANGED <<humidity_state, climate_state, data, options, hvac_mode,
                   is_on, added, sensors>>

HumidityStateChanged(s, suspend) ==
    /\ added
    /\ humidity_state' = s
    /\ update_state("state_changed", temp_state, s, climate_state,
                    options, suspend)
    /\ UNCHANGED <<temp_state, climate_state, data, options, hvac_mode,
                   is_on, added, sensors>>

ClimateStateChanged(s, suspend) ==
    /\ added
    /\ climate_state' = s
    /\ update_state("state_changed", temp_state, humidity_state, s,
                    options, suspend)
    /\ UNCHANGED <<temp_state, humidity_state, data, options, hvac_mode,
                   is_on, added, sensors>>

\* The entry's options become opts (the options flow stored new targets, or
\* they are the ones async_set_temperature just stored) and
\* _async_config_entry_updated runs for this entry.
async_config_entry_updated(opts, suspend) ==
    /\ added
    /\ options' = opts
    /\ update_state("config_entry_updated", temp_state, humidity_state,
                    climate_state, opts, suspend)
    /\ UNCHANGED <<world, data, hvac_mode, is_on, added, sensors>>

async_set_temperature(temperature, suspend) ==
    /\ added
    /\ IF temperature = None
       THEN /\ Skip("async_set_temperature")
            /\ options' = options
       ELSE LET new_options ==
                    [options EXCEPT !.target_feels_like = temperature]
            IN  /\ options' = new_options
                /\ IF AutoAndOn(hvac_mode, is_on)
                   THEN execute_comfort_control(
                            "async_set_temperature",
                            current_temperature, current_humidity,
                            feels_like_temperature, dew_point,
                            underlying_hvac_mode, new_options, suspend)
                   ELSE Skip("async_set_temperature")
    /\ UNCHANGED <<world, data, stored, hvac_mode, is_on, added, sensors>>

\* async_set_hvac_mode whose OFF branch does not clear is_on.
set_hvac_mode_off_keeps_is_on(mode, suspend) ==
    /\ added
    /\ hvac_mode' = mode
    /\ IF mode = HVAC_OFF
       THEN /\ is_on' = is_on
            /\ emitted' = <<SetHvacModeCall("off")>>
            /\ last' = Step("async_set_hvac_mode", FALSE, NoDecision)
            /\ pending' = pending
       ELSE /\ is_on' = TRUE
            /\ execute_comfort_control(
                   "async_set_hvac_mode",
                   current_temperature, current_humidity,
                   feels_like_temperature, dew_point,
                   underlying_hvac_mode, options, suspend)
    /\ UNCHANGED <<world, data, options, stored, added,
                   sensors>>

\* async_set_hvac_mode sending "off" only to a device not recorded as off.
set_hvac_mode_off_if_differs(mode, suspend) ==
    /\ added
    /\ hvac_mode' = mode
    /\ IF mode = HVAC_OFF
       THEN /\ is_on' = FALSE
            /\ emitted' = IF underlying_hvac_mode = "off"
                          THEN <<>>
                          ELSE <<SetHvacModeCall("off")>>
            /\ last' = Step("async_set_hvac_mode", FALSE, NoDecision)
            /\ pending' = pending
       ELSE /\ is_on' = TRUE
            /\ execute_comfort_control(
                   "async_set_hvac_mode",
                   current_temperature, current_humidity,
                   feels_like_temperature, dew_point,
                   underlying_hvac_mode, options, suspend)
    /\ UNCHANGED <<world, data, options, stored, added,
                   sensors>>

async_set_hvac_mode(mode, suspend) ==
    /\ added
    /\ hvac_mode' = mode
    /\ IF mode = HVAC_OFF
       THEN /\ is_on' = FALSE
            /\ emitted' = <<SetHvacModeCall("off")>>
            /\ last' = Step("async_set_hvac_mode", FALSE, NoDecision)
            /\ pending' = pending
       ELSE IF mode = HVAC_AUTO
       THEN /\ is_on' = TRUE
            /\ execute_comfort_control(
                   "async_set_hvac_mode",
                   current_temperature, current_humidity,
                   feels_like_temperature, dew_point,
                   underlying_hvac_mode, options, suspend)
       ELSE /\ is_on' = is_on
            /\ Skip("async_set_hvac_mode")
    /\ UNCHANGED <<world, data, options, stored, added,
                   sensors>>

async_turn_on(suspend) == async_set_hvac_mode(HVAC_AUTO, suspend)

async_turn_off(suspend) == async_set_hvac_mode(HVAC_OFF, suspend)

\* The suspended evaluation pending[i] continues after its set_hvac_mode
\* call: the setpoint call, if any, then the log line.
Resume(i) ==
    /\ i \in 1..Len(pending)
    /\ emitted' = SetpointCalls(pending[i])
    /\ last' = Step("resume", FALSE, pending[i])
    /\ pending' = [j \in 1..(Len(pending) - 1) |->
                      IF j < i THEN pending[j] ELSE pending[j + 1]]
    /\ UNCHANGED <<world, data, options, stored, hvac_mode, is_on, added, sensors>>

----------------------------------------------------------------------------
(* Spec: the host returns from every service call without suspending the   *)
(* caller (a call with blocking=False, the default the code uses), so each *)
(* handler runs to its end before the next starts.                         *)

Next ==
    \/ async_added_to_hass(FALSE)
    \/ \E s \in TempStates : TempStateChanged(s, FALSE)
    \/ \E s \in HumidityStates : HumidityStateChanged(s, FALSE)
    \/ \E s \in ClimateStates : ClimateStateChanged(s, FALSE)
    \/ \E opts \in FormTargets \cup {options} :
           async_config_entry_updated(opts, FALSE)
    \/ \E t \in SetTemperatureArgs : async_set_temperature(t, FALSE)
    \/ \E mode \in hvac_modes : async_set_hvac_mode(mode, FALSE)
    \/ async_turn_on(FALSE)
    \/ async_turn_off(FALSE)

Spec == Init /\ [][Next]_vars

----------------------------------------------------------------------------
(* AsyncSpec: the host may suspend a handler at its set_hvac_mode call and *)
(* run other handlers before it continues.  Readings stay numeric and the  *)
(* device present, so that every state change evaluates.                   *)

\* The most evaluations that may be suspended at the same time.
MaxPending == 1

CanSuspend(suspend) == suspend => Len(pending) < MaxPending

AsyncTempStates == {Numeric(v) : v \in TempReadings}
AsyncHumidityStates == {Numeric(Fx(40)), Numeric(Fx(70))}
AsyncClimateStates == {"off", "cool"}

AsyncInit ==
    /\ Init
    /\ temp_state \in AsyncTempStates
    /\ humidity_state \in AsyncHumidityStates
    /\ climate_state \in AsyncClimateStates

AsyncNext ==
    \/ \E b \in BOOLEAN : CanSuspend(b) /\ async_added_to_hass(b)
    \/ \E s \in AsyncTempStates, b \in BOOLEAN :
           CanSuspend(b) /\ TempStateChanged(s, b)
    \/ \E s \in AsyncHumidityStates, b \in BOOLEAN :
           CanSuspend(b) /\ HumidityStateChanged(s, b)
    \/ \E s \in AsyncClimateStates, b \in BOOLEAN :
           CanSuspend(b) /\ ClimateStateChanged(s, b)
    \/ \E t \in SetTemperatureArgs, b \in BOOLEAN :
           CanSuspend(b) /\ async_set_temperature(t, b)
    \/ \E mode \in hvac_modes, b \in BOOLEAN :
           CanSuspend(b) /\ async_set_hvac_mode(mode, b)
    \/ \E i \in 1..Len(pending) : Resume(i)

AsyncSpec == AsyncInit /\ [][AsyncNext]_vars

----------------------------------------------------------------------------
(* LadderSpec: one evaluation of the controller on stored inputs drawn     *)
(* from grids that hold each threshold of the ladder, the value just above *)
(* it and values on either side.                                           *)

LadderDewPoints == {0, Fx(50), Fx(65), 65010, Fx(70)}
LadderFeelsLike == {Fx(67), 67990, Fx(68), Fx(72), 72010, Fx(73), 73010,
                    Fx(74), 74010, Fx(75)}
LadderTemperatures == {Fx(2), Fx(68), Fx(80)}
LadderHumidities == {0, Fx(45), 45010, Fx(60), Fx(110)}
LadderTargets == {[target_feels_like |-> Fx(72), target_humidity |-> Fx(45)],
                  [target_feels_like |-> Fx(72), target_humidity |-> Fx(70)],
                  [target_feels_like |-> Fx(1), target_humidity |-> Fx(45)]}

LadderInit ==
    /\ temp_state = Missing
    /\ humidity_state = Missing
    /\ climate_state = NoClimate
    /\ data = SetupTargets
    /\ options \in LadderTargets
    /\ current_temperature \in LadderTemperatures
    /\ current_humidity \in LadderHumidities
    /\ feels_like_temperature \in LadderFeelsLike
    /\ dew_point \in LadderDewPoints
    /\ comfort_status = get_comfort_status(dew_point)
    /\ hvac_mode = HVAC_AUTO
    /\ is_on = TRUE
    /\ underlying_hvac_mode \in {"off", "cool"}
    /\ added = TRUE
    /\ pending = <<>>
    /\ emitted = <<>>
    /\ last = Step("init", FALSE, NoDecision)
    /\ sensors = NewSensors

LadderEvaluate ==
    /\ execute_comfort_control("evaluate", current_temperature,
                               current_humidity, feels_like_temperature,
                               dew_point, underlying_hvac_mode, options, FALSE)
    /\ UNCHANGED <<world, data, options, stored, hvac_mode, is_on, added, sensors>>

LadderNext == LadderEvaluate

LadderSpec == LadderInit /\ [][LadderNext]_vars

----------------------------------------------------------------------------
(* SensorSpec: the climate entity and the three sensor entities over the   *)
(* same source sensors.  A state change of a source sensor is handled by   *)
(* the climate entity and by the sensor entities in steps of their own.    *)
(* The readings lie on and next to the boundary 80 F / 40 % of the         *)
(* feels-like formula and give dew points in each of its bands; the        *)
(* humidities also lie on and beyond both ends of the range (0, 100] of    *)
(* the dew-point guard.                                                    *)

SensorTemperatures == {Fx(68), 79900, Fx(80)}
SensorHumidities ==
    {0 - Fx(5), 0, 39900, Fx(40), Fx(70), Fx(100), 100010, Fx(110)}

SensorTempStates == {Numeric(v) : v \in SensorTemperatures}
SensorHumidityStates == {Numeric(v) : v \in SensorHumidities}

SensorInit ==
    /\ Init
    /\ temp_state \in SensorTempStates
    /\ humidity_state \in SensorHumidityStates
    /\ climate_state = "cool"

SensorNext ==
    \/ async_added_to_hass(FALSE)
    \/ \E s \in SensorTempStates : TempStateChanged(s, FALSE)
    \/ \E s \in SensorHumidityStates : HumidityStateChanged(s, FALSE)
    \/ sensors_added_to_hass
    \/ sensors_state_changed

SensorSpec == SensorInit /\ [][SensorNext]_vars

----------------------------------------------------------------------------
(* ClassifySpec: the two classifiers, each applied once to a dew point     *)
(* drawn from a grid that holds every threshold, the values a hundredth    *)
(* below and above it, and values inside and outside the bands.            *)

ClassifyThresholds == {Fx(35), Fx(45), Fx(50), Fx(55), Fx(60), Fx(65)}

ClassifyDewPoints ==
    UNION {{t - 10, t, t + 10} : t \in ClassifyThresholds}
        \cup {0 - Fx(5), 0, Fx(20), Fx(40), 47500, 52500, 57500, 62500,
              Fx(70), Fx(100)}

ClassifyInit ==
    /\ temp_state = Missing
    /\ humidity_state = Missing
    /\ climate_state = NoClimate
    /\ data = SetupTargets
    /\ options = NoOptions
    /\ current_temperature = None
    /\ current_humidity = None
    /\ feels_like_temperature = None
    /\ dew_point \in ClassifyDewPoints
    /\ comfort_status = NoneStr
    /\ hvac_mode = HVAC_AUTO
    /\ is_on = TRUE
    /\ underlying_hvac_mode = NoneStr
    /\ added = FALSE
    /\ pending = <<>>
    /\ emitted = <<>>
    /\ last = Step("init", FALSE, NoDecision)
    /\ sensors = NewSensors

\* "self._comfort_status = self._get_comfort_status(self._dew_point)"
ClassifyClimate ==
    /\ comfort_status = NoneStr
    /\ comfort_status' = get_comfort_status(dew_point)
    /\ emitted' = <<>>
    /\ last' = Step("get_comfort_status", FALSE, NoDecision)
    /\ UNCHANGED <<world, data, options, current_temperature,
                   current_humidity, feels_like_temperature, dew_point,
                   hvac_mode, is_on, underlying_hvac_mode, added, pending,
                   sensors>>

\* The threshold chain of ComfortStatusSensor on the same dew point.
ClassifySensor ==
    /\ sensors.comfort_status.native_value = NoneStr
    /\ sensors' = [sensors EXCEPT !.comfort_status.native_value =
                                      sensor_comfort_status(dew_point)]
    /\ SensorStep("sensor_comfort_status")

ClassifyNext == ClassifyClimate \/ ClassifySensor

ClassifySpec == ClassifyInit /\ [][ClassifyNext]_vars

----------------------------------------------------------------------------
(* AdjustSpec: the comfort adjustment below the heat-index regime, applied *)
(* to one dew point after another of the classifier's grid (which holds    *)
(* both breakpoints and the values a hundredth beside them) at a fixed     *)
(* temperature.                                                            *)

AdjustTemperatures == {Fx(60), Fx(68), 79900}

AdjustInit ==
    /\ temp_state = Missing
    /\ humidity_state = Missing
    /\ climate_state = NoClimate
    /\ data = SetupTargets
    /\ options = NoOptions
    /\ current_temperature \in AdjustTemperatures
    /\ current_humidity = None
    /\ feels_like_temperature = None
    /\ dew_point \in ClassifyDewPoints
    /\ comfort_status = NoneStr
    /\ hvac_mode = HVAC_AUTO
    /\ is_on = TRUE
    /\ underlying_hvac_mode = NoneStr
    /\ added = FALSE
    /\ pending = <<>>
    /\ emitted = <<>>
    /\ last = Step("init", FALSE, NoDecision)
    /\ sensors = NewSensors

\* The dew point computed is dp, and the adjustment chain runs on it.
Adjust(dp) ==
    /\ dew_point' = dp
    /\ feels_like_temperature' = comfort_adjustment(current_temperature, dp)
    /\ emitted' = <<>>
    /\ last' = Step("comfort_adjustment", FALSE, NoDecision)
    /\ UNCHANGED <<world, data, options, current_temperature,
                   current_humidity, comfort_status, hvac_mode, is_on,
                   underlying_hvac_mode, added, pending, sensors>>

AdjustNext == \E dp \in ClassifyDewPoints : Adjust(dp)

AdjustSpec == AdjustInit /\ [][AdjustNext]_vars

----------------------------------------------------------------------------
(* DeliverySpec: the climate entity and the three sensor entities follow    *)
(* the same temperature and humidity sensors.  A state change of one of     *)
(* them is delivered to the listener of the climate entity and to the       *)
(* listeners of the sensor entities; the two kinds of entity share no       *)
(* field, so a step of this specification is the state change together     *)
(* with all its handlers.  A state change of the device is delivered to the *)
(* climate entity alone: the sensor entities do not subscribe to it.        *)

\* extra_state_attributes of the climate entity for the stored dew point dp
\* and comfort status: the two attributes the sensor entities also publish.
\* None stands for an attribute that is not set.
extra_state_attributes(dp, status) ==
    [dew_point |-> IF dp = None THEN None ELSE Round1(dp),
     comfort_status |-> status]

\* The handlers of the sensor entities for the source states ts and hs.
sensors_update(ss, ts, hs) ==
    [k \in DOMAIN ss |-> sensor_update_state(k, ss[k], ts, hs)]

\* The platform adds the climate entity and the sensor entities; each runs
\* its initial update.
DeliverAdded ==
    /\ ~added
    /\ added' = TRUE
    /\ update_state("async_added_to_hass", temp_state, humidity_state,
                    climate_state, options, FALSE)
    /\ sensors' = sensors_update(
                      [k \in DOMAIN sensors |->
                          [sensors[k] EXCEPT !.added = TRUE]],
                      temp_state, humidity_state)
    /\ UNCHANGED <<world, data, options, hvac_mode, is_on>>

\* The temperature sensor's state changes to s.
DeliverTemp(s) ==
    /\ added
    /\ temp_state' = s
    /\ update_state("state_changed", s, humidity_state, climate_state,
                    options, FALSE)
    /\ sensors' = sensors_update(sensors, s, humidity_state)
    /\ UNCHANGED <<humidity_state, climate_state, data, options, hvac_mode,
                   is_on, added>>

\* The humidity sensor's state changes to s.
DeliverHumidity(s) ==
    /\ added
    /\ humidity_state' = s
    /\ update_state("state_changed", temp_state, s, climate_state,
                    options, FALSE)
    /\ sensors' = sensors_update(sensors, temp_state, s)
    /\ UNCHANGED <<temp_state, climate_state, data, options, hvac_mode,
                   is_on, added>>

DeliveryNext ==
    \/ DeliverAdded
    \/ \E s \in TempStates : DeliverTemp(s)
    \/ \E s \in HumidityStates : DeliverHumidity(s)
    \/ \E s \in ClimateStates : ClimateStateChanged(s, FALSE)

DeliverySpec == Init /\ [][DeliveryNext]_vars

----------------------------------------------------------------------------
(* Properties *)

\* The targets and the difference the latest evaluation used: an evaluation
\* changes neither the stored metrics nor the options it read.
TargetFeelsLikeNow == target_feels_like(options, data)
TargetHumidityNow == target_humidity(options, data)
FeelsLikeDiffNow == feels_like_temperature - TargetFeelsLikeNow

\* The calls of the latest step to one service.
CallsTo(service) == {i \in 1..Len(emitted) : emitted[i].service = service}

EnabledAuto == is_on /\ hvac_mode = HVAC_AUTO

TurnOffCommand ==
    /\ last.op = "async_set_hvac_mode"
    /\ ~is_on
    /\ hvac_mode = HVAC_OFF
    /\ emitted = <<SetHvacModeCall("off")>>

\* C1 as claimed: every device command is issued while the controller is
\* enabled and in automatic mode.
C1_CommandsOnlyWhenEnabledAuto ==
    emitted # <<>> => EnabledAuto

\* C1 as amended: every evaluation runs while the controller is enabled and
\* in automatic mode, and every device command is either issued by such an
\* evaluation (at once, or as the setpoint call of one that was suspended)
\* or is the single set_hvac_mode "off" that async_set_hvac_mode(OFF)
\* issues once the controller is disabled.
C1_CommandsFromEvaluationOrTurnOff ==
    /\ last.evaluated => EnabledAuto
    /\ emitted # <<>> =>
           \/ last.evaluated
           \/ last.op = "resume" /\ emitted = SetpointCalls(last.decision)
           \/ TurnOffCommand

C1_Witness ==
    \/ TurnOffCommand /\ underlying_hvac_mode = "off"
    \/ last.evaluated /\ Len(emitted) = 2 /\ last.op = "state_changed"

\* C2: while the controller is disabled, a reading change, a device-mode
\* change, a config-entry update or an async_set_temperature call computes
\* no Decision and emits no device command, whatever the readings.
C2_DisabledEmitsNothing ==
    (~is_on /\ last.op \in {"state_changed", "config_entry_updated",
                            "async_set_temperature"})
        => (emitted = <<>> /\ ~last.evaluated)

C2_Witness ==
    /\ ~is_on
    /\ last.op = "state_changed"
    /\ temp_state.kind = "num" /\ humidity_state.kind = "num"
    /\ current_temperature = temp_state.val
    /\ dew_point > Fx(65)
    /\ FeelsLikeDiffNow >= Fx(5)
    /\ emitted = <<>>

\* C3: with current_humidity > target_humidity the Decision is cool at
\* min(current_temp - 2, target_feels_like - 1) when feels_like_diff > 2 and
\* dry at target_feels_like otherwise, whatever the dew point.
C3_HumidityDominates ==
    (last.evaluated /\ current_humidity > TargetHumidityNow)
        => IF FeelsLikeDiffNow > Fx(2)
           THEN /\ last.decision.mode = "cool"
                /\ last.decision.temp = Min(current_temperature - Fx(2),
                                            TargetFeelsLikeNow - Fx(1))
           ELSE /\ last.decision.mode = "dry"
                /\ last.decision.temp = TargetFeelsLikeNow

\* humidity 60, target 45, diff 3: cool
C3_Witness ==
    /\ last.evaluated
    /\ current_humidity = Fx(60) /\ TargetHumidityNow = Fx(45)
    /\ FeelsLikeDiffNow = Fx(3)
    /\ last.decision.mode = "cool"

\* C4: with current_humidity <= target_humidity and dew_point > 65 the
\* Decision is cool at min(current_temp - 3, target_feels_like - 2) when
\* feels_like_diff > 0 and dry at target_feels_like otherwise.
C4_OppressiveDewPoint ==
    (last.evaluated /\ current_humidity <= TargetHumidityNow
                    /\ dew_point > Fx(65))
        => IF FeelsLikeDiffNow > 0
           THEN /\ last.decision.mode = "cool"
                /\ last.decision.temp = Min(current_temperature - Fx(3),
                                            TargetFeelsLikeNow - Fx(2))
           ELSE /\ last.decision.mode = "dry"
                /\ last.decision.temp = TargetFeelsLikeNow

C4_Witness ==
    /\ last.evaluated
    /\ current_humidity <= TargetHumidityNow
    /\ dew_point = 65010
    /\ FeelsLikeDiffNow = 10
    /\ last.decision.mode = "cool"
    /\ last.decision.temp = TargetFeelsLikeNow - Fx(2)
    /\ current_temperature - Fx(3) > last.decision.temp

\* C5: with current_humidity <= target_humidity and dew_point <= 65 the
\* Decision is cool at current_temp - 1 when feels_like_diff > 2, fan_only
\* when 1 < feels_like_diff <= 2, off when feels_like_diff < -4, and
\* fan_only when -4 <= feels_like_diff <= 1.
C5_TemperatureComfort ==
    (last.evaluated /\ current_humidity <= TargetHumidityNow
                    /\ dew_point <= Fx(65))
        => /\ FeelsLikeDiffNow > Fx(2)
                => /\ last.decision.mode = "cool"
                   /\ last.decision.temp = current_temperature - Fx(1)
           /\ (FeelsLikeDiffNow > Fx(1) /\ FeelsLikeDiffNow <= Fx(2))
                => last.decision.mode = "fan_only"
           /\ FeelsLikeDiffNow < 0 - Fx(4)
                => last.decision.mode = "off"
           /\ (FeelsLikeDiffNow >= 0 - Fx(4) /\ FeelsLikeDiffNow <= Fx(1))
                => last.decision.mode = "fan_only"

\* the boundary -4, with the dew point on its boundary 65
C5_Witness ==
    /\ last.evaluated
    /\ current_humidity <= TargetHumidityNow
    /\ dew_point = Fx(65)
    /\ FeelsLikeDiffNow = 0 - Fx(4)
    /\ last.decision.mode = "fan_only"

\* C6: an evaluation emits a set_hvac_mode command exactly when the
\* Decision's mode differs from the recorded underlying mode, and the mode
\* it sends is the Decision's.
C6_ModeCommandIffDiffers ==
    last.evaluated
        => /\ (CallsTo("set_hvac_mode") # {})
                <=> (last.decision.mode # underlying_hvac_mode)
           /\ Cardinality(CallsTo("set_hvac_mode")) <= 1
           /\ \A i \in CallsTo("set_hvac_mode") :
                  emitted[i].hvac_mode = last.decision.mode

\* modes equal: no mode command, the setpoint command still sent
C6_Witness ==
    /\ last.evaluated
    /\ last.decision.mode = "cool"
    /\ underlying_hvac_mode = "cool"
    /\ CallsTo("set_hvac_mode") = {}
    /\ CallsTo("set_temperature") # {}

\* C7 as claimed: an evaluation whose Decision is cool or dry with a
\* setpoint emits a set_temperature command carrying that setpoint, for
\* every setpoint value, 0 included.
C7_SetpointAlwaysSent ==
    (last.evaluated /\ last.decision.mode \in {"cool", "dry"}
                    /\ last.decision.temp # None)
        => \E i \in CallsTo("set_temperature") :
               emitted[i].temperature = last.decision.temp

\* C8: a fan_only or off Decision carries no setpoint and a cool or dry
\* Decision carries one; an evaluation whose Decision is fan_only or off
\* emits no set_temperature command.
C8_SetpointOnlyForCoolDry ==
    last.evaluated
        => /\ last.decision.mode \in {"cool", "dry", "fan_only", "off"}
           /\ last.decision.mode \in {"fan_only", "off"}
                => /\ last.decision.temp = None
                   /\ CallsTo("set_temperature") = {}
           /\ last.decision.mode \in {"cool", "dry"}
                => last.decision.temp # None

C8_Witness ==
    /\ last.evaluated
    /\ last.decision.mode = "off"
    /\ underlying_hvac_mode = "cool"
    /\ emitted = <<SetHvacModeCall("off")>>

\* A source state the handler treats as absent or unavailable.
Unavailable(s) == s.kind \in {"missing", STATE_UNKNOWN, STATE_UNAVAILABLE}

ReadingUnavailable ==
    \/ Unavailable(temp_state)
    \/ Unavailable(humidity_state)
    \/ climate_state = NoClimate

\* C9 as claimed: while a reading or the device state is absent or
\* unavailable, no triggering event (reading change, async_set_temperature,
\* async_set_hvac_mode(AUTO)) computes a Decision or emits a command.
C9_UnavailableSkipsEvaluation ==
    (/\ ReadingUnavailable
     /\ last.op \in {"state_changed", "async_set_temperature",
                     "async_set_hvac_mode"}
     /\ hvac_mode = HVAC_AUTO)
        => (~last.evaluated /\ emitted = <<>>)

\* C10 as claimed: while the controller is enabled in auto, a humidity
\* reading outside (0, 100] produces no Decision and no device command.
C10_InvalidHumiditySuppresses ==
    (/\ EnabledAuto
     /\ last.op = "state_changed"
     /\ humidity_state.kind = "num"
     /\ (humidity_state.val <= 0 \/ humidity_state.val > Fx(100)))
        => (~last.evaluated /\ emitted = <<>>)

\* A step in which _async_state_changed ran and found a temperature or a
\* humidity state that float() rejects.
ParseFailureStep ==
    /\ last'.op = "state_changed"
    /\ temp_state'.kind = "text" \/ humidity_state'.kind = "text"

\* C11 as claimed: a state-change event with a temperature or humidity that
\* does not parse as a number evaluates nothing, emits no command and leaves
\* the stored current temperature, current humidity, dew point, feels-like
\* temperature, comfort status and underlying mode as they were, also when
\* the temperature parses and the humidity does not.
C11_ParseFailureHoldsState ==
    [][ParseFailureStep
           => (stored' = stored /\ emitted' = <<>> /\ ~last'.evaluated)]_vars

\* C12 as claimed: whenever a dew point is stored, the stored dew point,
\* feels-like temperature and comfort status are the values computed from
\* the stored current temperature and current humidity, so that no metric of
\* an older reading stands next to a newer stored reading and an evaluation
\* (which reads these stored values) takes feels_like_diff and current_temp
\* from the same reading.
C12_MetricsFromStoredReading ==
    dew_point # None
        => /\ dew_point = calculate_dew_point(current_temperature,
                                              current_humidity)
           /\ feels_like_temperature =
                  calculate_feels_like_temperature(current_temperature,
                                                   current_humidity)
           /\ comfort_status = get_comfort_status(dew_point)

\* C13 as claimed: every evaluation, whichever event starts it, compares
\* the Decision's mode with the mode the device reports at that time: it
\* sends a mode command exactly when the two differ (the device having a
\* state to report), also when the device's mode changed while a reading
\* was unavailable.
C13_ComparesWithReportedMode ==
    (last.evaluated /\ climate_state # NoClimate)
        => ((CallsTo("set_hvac_mode") # {})
                <=> (last.decision.mode # climate_state))

\* C14 as claimed: evaluations never overlap.  While an evaluation is
\* suspended at its mode command, the next step that evaluates, writes the
\* stored state or emits a command is that evaluation's own continuation, so
\* that no command of another evaluation comes between its mode command and
\* its setpoint command.
C14_EvaluationsNeverOverlap ==
    [][pending # <<>>
           => \/ last'.op = "resume"
              \/ (stored' = stored /\ emitted' = <<>> /\ ~last'.evaluated)]_vars

\* The six inputs of the ladder as the latest evaluation read them.
LadderInputs ==
    <<dew_point, FeelsLikeDiffNow, current_temperature, current_humidity,
      TargetHumidityNow, TargetFeelsLikeNow>>

\* The Decision of every evaluation is the ladder's value on the six inputs.
DecisionIsLadderOfInputs ==
    last.evaluated
        => last.decision =
               determine_climate_action(dew_point, FeelsLikeDiffNow,
                                        current_temperature, current_humidity,
                                        TargetHumidityNow, TargetFeelsLikeNow)

\* An evaluation that follows an evaluation with the same six inputs gives
\* the same Decision, whatever else changed in between.
SameInputsSameDecision ==
    (last.evaluated /\ last'.evaluated /\ LadderInputs' = LadderInputs)
        => last'.decision = last.decision

\* C15: the Decision (mode, setpoint, reason) of an evaluation is determined
\* by the dew point, the feels-like difference, the current temperature, the
\* current humidity and the two targets: it is the ladder's value on them,
\* and an evaluation repeated on unchanged inputs repeats the Decision,
\* whatever the previous Decision and the recorded device mode are.
C15_DecisionDeterminedByInputs ==
    []DecisionIsLadderOfInputs /\ [][SameInputsSameDecision]_vars

\* a second evaluation on the same readings after the device's mode changed
\* to fan_only: the Decision is cool again, and a mode command is sent again
C15_Witness ==
    /\ last.evaluated
    /\ last.op = "state_changed"
    /\ underlying_hvac_mode = "fan_only"
    /\ current_temperature = Fx(80) /\ current_humidity = Fx(70)
    /\ last.decision.mode = "cool"
    /\ emitted[1] = SetHvacModeCall("cool")

\* Humidity in excess: above its target, or the dew point oppressive.
HumidityExcess ==
    current_humidity > TargetHumidityNow \/ dew_point > DEW_POINT_OPPRESSIVE

\* C16 as claimed: a Decision with mode cool occurs only when
\* feels_like_diff > 0 and humidity is in excess (current_humidity above
\* target_humidity, or dew_point > 65); with acceptable humidity cool is
\* never chosen.
C16_CoolOnlyWithHumidityExcess ==
    (last.evaluated /\ last.decision.mode = "cool")
        => (FeelsLikeDiffNow > 0 /\ HumidityExcess)

\* C16 as amended: a Decision with mode cool occurs only when
\* feels_like_diff > 0, and with acceptable humidity (current_humidity <=
\* target_humidity and dew_point <= 65) exactly when feels_like_diff > 2, its
\* setpoint then being current_temp - 1.
C16_CoolOnlyWhenWarm ==
    /\ (last.evaluated /\ last.decision.mode = "cool")
           => /\ FeelsLikeDiffNow > 0
              /\ ~HumidityExcess
                   => /\ FeelsLikeDiffNow > Fx(2)
                      /\ last.decision.temp = current_temperature - Fx(1)
    /\ (last.evaluated /\ ~HumidityExcess /\ FeelsLikeDiffNow > Fx(2))
           => last.decision.mode = "cool"

\* humidity at its target, dew point 50, diff 2.01: cool
C16_Witness ==
    /\ last.evaluated
    /\ last.decision.mode = "cool"
    /\ current_humidity = TargetHumidityNow
    /\ dew_point = Fx(50)
    /\ FeelsLikeDiffNow = 2010

\* C17 as claimed (Variant B, the dew-point ladder): with the dew point in
\* the comfortable band 45 <= dew_point <= 55 and feels_like_diff < -4 the
\* Decision is off, whatever the current humidity and its target.
C17_ComfortableBandTooColdIsOff ==
    (/\ last.evaluated
     /\ dew_point >= Fx(45) /\ dew_point <= Fx(55)
     /\ FeelsLikeDiffNow < 0 - Fx(4))
        => last.decision.mode = "off"

\* The label the bands of C18 give a dew point.
BandLabel(dp) ==
    CASE dp > Fx(65) -> "Oppressive"
      [] Fx(60) < dp /\ dp <= Fx(65) -> "Muggy"
      [] Fx(55) < dp /\ dp <= Fx(60) -> "Slightly Humid"
      [] Fx(50) < dp /\ dp <= Fx(55) -> "Comfortable"
      [] Fx(45) < dp /\ dp <= Fx(50) -> "Very Comfortable"
      [] Fx(35) < dp /\ dp <= Fx(45) -> "Dry"
      [] dp <= Fx(35) -> "Very Dry"

\* C18: every dew point gets the one label of its band (dew > 65
\* Oppressive, 60 < dew <= 65 Muggy, 55 < dew <= 60 Slightly Humid,
\* 50 < dew <= 55 Comfortable, 45 < dew <= 50 Very Comfortable,
\* 35 < dew <= 45 Dry, dew <= 35 Very Dry), from the climate entity's
\* classifier and from ComfortStatusSensor's.
C18_ClassifierBands ==
    /\ comfort_status # NoneStr => comfort_status = BandLabel(dew_point)
    /\ sensors.comfort_status.native_value # NoneStr
           => sensors.comfort_status.native_value = BandLabel(dew_point)

\* the threshold 55 itself is Comfortable for both
C18_Witness ==
    /\ dew_point = Fx(55)
    /\ comfort_status = "Comfortable"
    /\ sensors.comfort_status.native_value = "Comfortable"

\* C19 as claimed: the classifier gives Slightly Humid at 65.0 and
\* Oppressive at 65.01.
C19_BoundarySlightlyHumid ==
    comfort_status # NoneStr
        => /\ dew_point = Fx(65) => comfort_status = "Slightly Humid"
           /\ dew_point = 65010 => comfort_status = "Oppressive"

\* C19 as amended: the classifier gives Muggy at 65.0 and Oppressive at
\* 65.01.
C19_BoundaryMuggy ==
    comfort_status # NoneStr
        => /\ dew_point = Fx(65) => comfort_status = "Muggy"
           /\ dew_point = 65010 => comfort_status = "Oppressive"

C19_Witness ==
    dew_point = Fx(65) /\ comfort_status = "Muggy"

\* The adjustment of the dew-point branch of C20.
DewAdjusted(temp_f, dp) ==
    IF dp > Fx(65) THEN temp_f + ((dp - Fx(55)) * 4) \div 10
    ELSE IF dp > Fx(55) /\ dp <= Fx(65)
    THEN temp_f + ((dp - Fx(55)) * 2) \div 10
    ELSE temp_f

\* The value C20 gives the reading: the heat index exactly when the
\* temperature is >= 80 and the humidity >= 40, the adjusted temperature
\* in every other case.
FeelsLikeOfClaim(temp_f, humidity, dp) ==
    IF temp_f >= Fx(80) /\ humidity >= Fx(40)
    THEN HeatIndexPolynomial(temp_f, humidity)
    ELSE DewAdjusted(temp_f, dp)

\* C20: the climate entity's feels-like temperature is the heat index
\* exactly when temp >= 80 and humidity >= 40, and otherwise the temperature
\* plus 0.4*(dew-55) if dew > 65, plus 0.2*(dew-55) if 55 < dew <= 65,
\* unchanged if dew <= 55; FeelsLikeSensor takes the same branch on every
\* reading, its native value being that value rounded to one decimal.
C20_FeelsLikeBranches ==
    /\ dew_point # None
           => feels_like_temperature =
                  FeelsLikeOfClaim(current_temperature, current_humidity,
                                   dew_point)
    /\ sensors.feels_like.native_value # None
           => LET self == sensors.feels_like
              IN  self.native_value =
                      Round1(FeelsLikeOfClaim(
                                 self.current_temperature,
                                 self.current_humidity,
                                 sensor_calculate_dew_point(
                                     self.current_temperature,
                                     self.current_humidity)))
    /\ (/\ dew_point # None
        /\ sensors.feels_like.native_value # None
        /\ sensors.feels_like.current_temperature = current_temperature
        /\ sensors.feels_like.current_humidity = current_humidity)
           => sensors.feels_like.native_value = Round1(feels_like_temperature)

\* the boundary 80 F / 40 %: both entities give the heat index, 79.929
C20_Witness ==
    /\ current_temperature = Fx(80) /\ current_humidity = Fx(40)
    /\ feels_like_temperature = 79929
    /\ sensors.feels_like.current_temperature = Fx(80)
    /\ sensors.feels_like.current_humidity = Fx(40)
    /\ sensors.feels_like.native_value = 79900

\* Two adjustments in a row, the second on a dew point at least as high.
AdjustedTwice ==
    /\ feels_like_temperature # None
    /\ feels_like_temperature' # None
    /\ dew_point' >= dew_point

\* The adjustment never decreases as the dew point rises.
AdjustmentMonotone ==
    AdjustedTwice => feels_like_temperature' >= feels_like_temperature

\* Across a hundredth of dew point the adjustment moves by no more than
\* its steepest slope allows (0.4 * 0.01): no jump.
NoJump ==
    (AdjustedTwice /\ dew_point' - dew_point = 10)
        => feels_like_temperature' - feels_like_temperature <= 4

\* C21 as claimed: the adjustment is monotone non-decreasing in the dew
\* point and continuous, at the breakpoints 55 and 65 too.
C21_AdjustmentContinuousMonotone ==
    [][AdjustmentMonotone /\ NoJump]_vars

\* C21 as amended: the adjustment is monotone non-decreasing in the dew
\* point and continuous everywhere but at 65, where it rises from 2.0 (at
\* 65.0, (65 - 55) * 0.2) to just above 4.0 (at 65.01, (65.01 - 55) * 0.4).
C21_AdjustmentMonotoneJumpAt65 ==
    /\ [][AdjustmentMonotone /\ (dew_point # Fx(65) => NoJump)]_vars
    /\ [](feels_like_temperature # None
             => /\ dew_point = Fx(55)
                    => feels_like_temperature = current_temperature
                /\ dew_point = 55010
                    => feels_like_temperature = current_temperature + 2
                /\ dew_point = Fx(65)
                    => feels_like_temperature = current_temperature + Fx(2)
                /\ dew_point = 65010
                    => feels_like_temperature = current_temperature + 4004)

\* just above the breakpoint 65: the adjustment is 4.004
C21_Witness ==
    /\ current_temperature = Fx(68)
    /\ dew_point = 65010
    /\ feels_like_temperature = 72004

\* The states in which the climate entity's stored metrics come from the
\* readings now in the world: the step was a complete update pass.
CompleteUpdate ==
    /\ last.op \in {"state_changed", "async_added_to_hass"}
    /\ temp_state.kind = "num"
    /\ humidity_state.kind = "num"
    /\ climate_state # NoClimate

\* The dew point the claim gives for a temperature and a humidity: 0 outside
\* (0, 100], the Magnus value inside.
DewPointOfClaim(temp_f, humidity) ==
    IF humidity <= 0 \/ humidity > Fx(100) THEN 0 ELSE Magnus(temp_f, humidity)

\* C22: the dew point computed by the climate entity and by the sensor base
\* class is 0 for every humidity <= 0 or > 100, whatever the temperature,
\* and the Magnus value (never the early return) for a humidity in (0, 100].
C22_DewPointSentinel ==
    /\ CompleteUpdate
           => /\ current_temperature = temp_state.val
              /\ current_humidity = humidity_state.val
              /\ dew_point = DewPointOfClaim(current_temperature,
                                             current_humidity)
    /\ LET s == sensors.dew_point
       IN  (s.current_temperature # None /\ s.current_humidity # None)
               => s.native_value
                      = Round1(DewPointOfClaim(s.current_temperature,
                                               s.current_humidity))

\* Climate entity and dew-point sensor both hold the sentinel for a humidity
\* just above 100 at 68 F.
C22_Witness ==
    /\ CompleteUpdate
    /\ current_temperature = Fx(68)
    /\ current_humidity = 100010
    /\ dew_point = 0
    /\ sensors.dew_point.current_humidity = 100010
    /\ sensors.dew_point.native_value = 0

\* The commands a Decision d requires of a device reporting the mode device:
\* the mode where it differs, and the setpoint the Decision produced for
\* cool or dry.
RequiredCommands(d, device) ==
    (IF d.mode # device THEN <<SetHvacModeCall(d.mode)>> ELSE <<>>)
        \o (IF d.mode \in {"cool", "dry"} /\ d.temp # None
            THEN <<SetTemperatureCall(d.temp)>>
            ELSE <<>>)

\* A state-change event handled while the controller is enabled in auto and
\* the temperature, the humidity and the device state are present and
\* numeric.
CompleteEvent ==
    /\ last.op = "state_changed"
    /\ EnabledAuto
    /\ temp_state.kind = "num"
    /\ humidity_state.kind = "num"
    /\ climate_state # NoClimate

\* The evaluation ran on the readings of the event: the stored readings and
\* metrics are those of the source states and the Decision is the ladder's.
EvaluatedOnEventReadings ==
    /\ last.evaluated
    /\ current_temperature = temp_state.val
    /\ current_humidity = humidity_state.val
    /\ dew_point = calculate_dew_point(temp_state.val, humidity_state.val)
    /\ feels_like_temperature
           = calculate_feels_like_temperature(temp_state.val,
                                              humidity_state.val)
    /\ underlying_hvac_mode = climate_state
    /\ DecisionIsLadderOfInputs

\* C23: skipped evaluations do not latch.  Whatever failures came before,
\* a state-change event with temperature, humidity and device state all
\* present and numeric, handled while the controller is enabled in auto,
\* performs a full evaluation on those readings and emits the commands its
\* Decision requires.
C23_SkippedEvaluationsDoNotLatch ==
    CompleteEvent
        => /\ EvaluatedOnEventReadings
           /\ emitted = RequiredCommands(last.decision, climate_state)

\* A step of async_set_hvac_mode (async_turn_on and async_turn_off are calls
\* of it) that selected the mode m.
SetHvacModeStep(m) == last.op = "async_set_hvac_mode" /\ hvac_mode = m

\* The OFF half of C24: exactly one set_hvac_mode "off", no set_temperature,
\* is_on false.
OffSendsOneOff ==
    SetHvacModeStep(HVAC_OFF)
        => /\ emitted = <<SetHvacModeCall("off")>>
           /\ CallsTo("set_temperature") = {}
           /\ ~is_on

\* C24 as claimed: async_set_hvac_mode(OFF) (and async_turn_off) emits
\* exactly one set_hvac_mode "off", whatever the recorded device mode, no
\* set_temperature, and leaves is_on false; async_set_hvac_mode(AUTO) (and
\* async_turn_on) sets is_on true and runs one evaluation immediately.
C24_OffSendsOffAutoEvaluates ==
    /\ OffSendsOneOff
    /\ SetHvacModeStep(HVAC_AUTO) => (is_on /\ last.evaluated)

\* C24 as amended: the OFF half as claimed; async_set_hvac_mode(AUTO) sets
\* is_on true and runs one evaluation immediately exactly when a reading
\* pair and its metrics are stored, and otherwise evaluates and emits
\* nothing.
C24_OffSendsOffAutoEvaluatesStored ==
    /\ OffSendsOneOff
    /\ SetHvacModeStep(HVAC_AUTO)
           => /\ is_on
              /\ last.evaluated
                     <=> HaveMetrics(current_temperature, current_humidity,
                                     feels_like_temperature, dew_point)
              /\ last.evaluated => DecisionIsLadderOfInputs
              /\ ~last.evaluated => emitted = <<>>

\* The device is recorded as off and the OFF call still sends "off".
C24_Witness ==
    /\ SetHvacModeStep(HVAC_OFF)
    /\ underlying_hvac_mode = "off"
    /\ emitted = <<SetHvacModeCall("off")>>
    /\ ~is_on

\* An update pass (state change, set-up or config-entry update) that found
\* the temperature, the humidity and the device state present and numeric.
CompletePass ==
    /\ last.op \in {"state_changed", "async_added_to_hass",
                    "config_entry_updated"}
    /\ temp_state.kind = "num"
    /\ humidity_state.kind = "num"
    /\ climate_state # NoClimate

\* No complete pass has happened yet: no dew point was ever stored.  The
\* second conjunct of C25 shows that only a complete pass ends this.
NothingStoredYet == dew_point = None

\* C25: before the first event at which temperature, humidity and device
\* state were all present and numeric, no handler (async_set_hvac_mode(AUTO),
\* async_set_temperature, state changes) runs the ladder, and no mode or
\* setpoint command comes from an evaluation: the only command possible is
\* the "off" of async_set_hvac_mode(OFF).
C25_NoCommandBeforeFirstReading ==
    /\ [](last.op = "init" => NothingStoredYet)
    /\ [][(NothingStoredYet /\ ~CompletePass')
              => /\ NothingStoredYet'
                 /\ ~last'.evaluated
                 /\ emitted' = <<>> \/ TurnOffCommand']_vars

\* async_set_temperature called in auto after a pass stored the temperature
\* alone (the humidity did not parse): still no evaluation, no command.
C25_Witness ==
    /\ NothingStoredYet
    /\ current_temperature # None
    /\ last.op = "async_set_temperature"
    /\ options.target_feels_like # None
    /\ EnabledAuto
    /\ ~last.evaluated
    /\ emitted = <<>>

\* C26: the controller starts with hvac_mode AUTO and is_on true, and after
\* any sequence of async_turn_on, async_turn_off and async_set_hvac_mode
\* calls with modes in {OFF, AUTO} (and of any other events), is_on is true
\* exactly when hvac_mode is AUTO.
C26_IsOnIffAuto ==
    /\ last.op = "init" => (hvac_mode = HVAC_AUTO /\ is_on)
    /\ hvac_mode \in hvac_modes
    /\ is_on <=> hvac_mode = HVAC_AUTO

\* The controller was turned off and a later reading change found it still
\* off and disabled.
C26_Witness ==
    /\ last.op = "state_changed"
    /\ hvac_mode = HVAC_OFF
    /\ ~is_on
    /\ current_temperature # None

\* What a call async_set_temperature(t) leaves behind.  With a temperature:
\* the target is t, the humidity target is as before, and the evaluation it
\* triggers is the ladder's value with t as target.  Without: no target
\* changes, nothing is evaluated or emitted.
SetTemperaturePost(t) ==
    IF t = None
    THEN /\ options' = options
         /\ TargetFeelsLikeNow' = TargetFeelsLikeNow
         /\ TargetHumidityNow' = TargetHumidityNow
         /\ ~last'.evaluated
         /\ emitted' = <<>>
    ELSE /\ TargetFeelsLikeNow' = t
         /\ TargetHumidityNow' = TargetHumidityNow
         /\ last'.evaluated
                => last'.decision
                       = determine_climate_action(
                             dew_point, feels_like_temperature - t,
                             current_temperature, current_humidity,
                             TargetHumidityNow, t)

\* While an option target_feels_like is stored, every evaluation takes it as
\* its target, whatever the set-up data and the default are.
StoredOptionIsTarget ==
    (options.target_feels_like # None /\ last.evaluated)
        => last.decision
               = determine_climate_action(
                     dew_point,
                     feels_like_temperature - options.target_feels_like,
                     current_temperature, current_humidity,
                     TargetHumidityNow, options.target_feels_like)

\* C27: async_set_temperature(t) with a temperature makes target_feels_like
\* equal to t for the evaluation it triggers and, the stored option taking
\* precedence over the configured value and the default, for every later
\* evaluation while that option is stored, and leaves target_humidity as it
\* was; without a temperature it changes no target and emits no command.
C27_SetTemperatureStoresTarget ==
    /\ []StoredOptionIsTarget
    /\ [][\A t \in SetTemperatureArgs :
              async_set_temperature(t, FALSE) => SetTemperaturePost(t)]_vars

\* A reading change evaluated with the target 1.0 stored by an earlier
\* async_set_temperature, set-up data being 85 / 70: at 68 F the Decision is
\* cool at 67 (with the target 85 it would be off).
C27_Witness ==
    /\ last.op = "state_changed"
    /\ last.evaluated
    /\ options = [target_feels_like |-> Fx(1), target_humidity |-> None]
    /\ data.target_feels_like = Fx(85)
    /\ TargetHumidityNow = Fx(70)
    /\ last.decision.mode = "cool"
    /\ last.decision.temp = Fx(67)

\* The dew point and the comfort label the climate entity exposes.
ClimateAttributes == extra_state_attributes(dew_point, comfort_status)

\* The climate entity's two attributes are the values the dew-point and the
\* comfort-status sensor publish.
AttributesEqualSensors ==
    /\ ClimateAttributes.dew_point = sensors.dew_point.native_value
    /\ ClimateAttributes.comfort_status = sensors.comfort_status.native_value

\* C28 as claimed: after any sequence of temperature, humidity and device
\* state events delivered to both, the attributes dew_point and
\* comfort_status of the climate entity equal the values published by
\* DewPointSensor and ComfortStatusSensor.
C28_AttributesEqualSensorValues ==
    added => AttributesEqualSensors

\* Where C28 does hold: the two are equal before any event, and every event
\* delivered while the climate device has a state keeps them equal.
C28_EqualWhileDevicePresent ==
    /\ [](~added => AttributesEqualSensors)
    /\ [][(AttributesEqualSensors /\ climate_state' # NoClimate)
              => AttributesEqualSensors']_vars

\* A reading of the pair ts, hs is missing, unavailable/unknown or
\* non-numeric.
InvalidPair(ts, hs) == ts.kind # "num" \/ hs.kind # "num"

\* C29: when a source reading of a comfort sensor entity is missing,
\* unavailable/unknown or non-numeric at an event, the published value of
\* each of the three sensors is left exactly as it was (not reset to none);
\* a published value changes only at an event with both readings present
\* and numeric, and is then the value of that pair.
C29_SensorValueKeptWhileInvalid ==
    [][/\ InvalidPair(temp_state', humidity_state')
           => \A k \in DOMAIN sensors :
                  sensors'[k].native_value = sensors[k].native_value
       /\ (\E k \in DOMAIN sensors :
               sensors'[k].native_value # sensors[k].native_value)
           => /\ ~InvalidPair(temp_state', humidity_state')
              /\ sensors'.dew_point.native_value
                     = Round1(DewPointOfClaim(temp_state'.val,
                                              humidity_state'.val))
              /\ sensors'.comfort_status.native_value
                     = BandLabel(DewPointOfClaim(temp_state'.val,
                                                 humidity_state'.val))]_vars

\* The temperature sensor is unavailable, the sensor entities cleared their
\* stored temperature and still publish the values of 68 F / 70 %.
C29_Witness ==
    /\ IsUnknownOrUnavailable(temp_state)
    /\ last.op = "state_changed"
    /\ \A k \in DOMAIN sensors : sensors[k].current_temperature = None
    /\ sensors.dew_point.native_value = 57900
    /\ sensors.comfort_status.native_value = "Slightly Humid"
    /\ sensors.feels_like.native_value # None

====
